---- MODULE Spec2Model ----
(***************************************************************************)
(* Retrieval-and-answer pipeline of the document chatbot backend:          *)
(* query normalisation, vector search with keyword fallback, grounding     *)
(* policy, context budgeting, answer generation and the in-memory cache.   *)
(*                                                                         *)
(* Text is a sequence of one-character strings, so that Python's           *)
(* substring test, split(), strip(), lower() and len() are computed on     *)
(* the characters.  Scores are integers in hundredths (80 is 0.8).         *)
(***************************************************************************)
EXTENDS Integers, Sequences, FiniteSets, TLC

VARIABLES
    db,              \* MongoDB: documents, document_chunks, vector collection
    settings,        \* app.core.config.settings as loaded at start-up
    pc,              \* position of the request being served
    req,             \* the request (op, query, course_id, top_k)
    search_results,  \* result of the retrieval call of the request
    relevant_results,\* document_chat_answer's re-sorted top-k list
    rtrace,          \* what the retrieval call did (vector / fallback)
    context_parts,   \* candidates whose "Source N" block entered the context
    gen,             \* Generator calls of the request and their outcome
    answer,          \* the handler's local variable answer
    reply,           \* what the handler returned (or the HTTP error raised)
    cache,           \* the CacheService instance: cache, cache_ttl, enabled
    now,             \* time.time()
    lastop,          \* last CacheService call and its return value
    served,          \* the request answered before the one being served
    thr,             \* callers of the CacheService running in threads
    call             \* a call of normalize_query or of RerankerService.rerank

vars == <<db, settings, pc, req, search_results, relevant_results, rtrace,
          context_parts, gen, answer, reply, cache, now, lastop, served, thr, call>>

None == "None"

---------------------------------------------------------------------------
(* Strings *)

Pad(n) == [i \in 1..n |-> "~"]

Upper == <<"A","B","C","D","E","F","G","H","I","J","K","L","M",
           "N","O","P","Q","R","S","T","U","V","W","X","Y","Z">>

LowerOf == <<"a","b","c","d","e","f","g","h","i","j","k","l","m",
             "n","o","p","q","r","s","t","u","v","w","x","y","z">>

UpperToLower ==
    [c \in {Upper[i] : i \in 1..Len(Upper)} |->
        LowerOf[CHOOSE i \in 1..Len(Upper) : Upper[i] = c]]

LowerChar(c) == IF c \in DOMAIN UpperToLower THEN UpperToLower[c] ELSE c

\* str.lower()
Lower(s) == [i \in 1..Len(s) |-> LowerChar(s[i])]

\* Python's  w in t
In(w, t) == \E i \in 1..(Len(t) - Len(w) + 1) : \A k \in 1..Len(w) : t[i + k - 1] = w[k]

IsSpace(c) == c = " "

Letters == {"a","b","c","d","e","f","g","h","i","j","k","l","m","n","o","p",
            "q","r","s","t","u","v","w","x","y","z"}

\* the characters the regex class \w accepts
IsWordChar(c) == LowerChar(c) \in Letters \cup {"0","1","2","3","4","5","6","7","8","9","_"}

RECURSIVE LStrip(_)
LStrip(s) == IF s # <<>> /\ IsSpace(Head(s)) THEN LStrip(Tail(s)) ELSE s

RECURSIVE RStrip(_)
RStrip(s) == IF s # <<>> /\ IsSpace(s[Len(s)]) THEN RStrip(SubSeq(s, 1, Len(s) - 1)) ELSE s

\* str.strip()
Strip(s) == RStrip(LStrip(s))

\* str.split(): the maximal runs of non-whitespace characters
RECURSIVE SplitFrom(_, _, _)
SplitFrom(s, i, cur) ==
    IF i > Len(s) THEN (IF cur = <<>> THEN <<>> ELSE <<cur>>)
    ELSE IF IsSpace(s[i])
         THEN (IF cur = <<>> THEN <<>> ELSE <<cur>>) \o SplitFrom(s, i + 1, <<>>)
         ELSE SplitFrom(s, i + 1, Append(cur, s[i]))

Split(s) == SplitFrom(s, 1, <<>>)

\* sep.join(parts)
RECURSIVE Join(_, _)
Join(sep, parts) ==
    IF parts = <<>> THEN <<>>
    ELSE IF Len(parts) = 1 THEN parts[1]
    ELSE parts[1] \o sep \o Join(sep, Tail(parts))

\* str.replace(" ", repl)
RECURSIVE ReplaceSpace(_, _)
ReplaceSpace(s, repl) ==
    IF s = <<>> THEN <<>>
    ELSE (IF Head(s) = " " THEN repl ELSE <<Head(s)>>) \o ReplaceSpace(Tail(s), repl)

\* len(str(n)) for a non-negative integer
RECURSIVE Digits(_)
Digits(n) == IF n < 10 THEN 1 ELSE 1 + Digits(n \div 10)

---------------------------------------------------------------------------
(* query_utils.normalize_query *)

S_intenship  == <<"i","n","t","e","n","s","h","i","p">>
S_intership  == <<"i","n","t","e","r","s","h","i","p">>
S_internship == <<"i","n","t","e","r","n","s","h","i","p">>
S_project    == <<"p","r","o","j","e","c","t">>
S_proj       == <<"p","r","o","j">>

\* The strings a pattern of COMMON_FIXES can match, in the order the regex
\* engine tries them (greedy optional groups first), and its replacement.
COMMON_FIXES_Typo ==
    << [alts |-> <<S_intenship>>, repl |-> S_internship],
       [alts |-> <<S_intership>>, repl |-> S_intenship],
       [alts |-> <<S_project \o <<"s">>, S_project, S_proj \o <<"s">>, S_proj>>,
        repl |-> S_project] >>

COMMON_FIXES ==
    << [alts |-> <<S_intenship>>, repl |-> S_internship],
       [alts |-> <<S_intership>>, repl |-> S_internship],
       [alts |-> <<S_project \o <<"s">>, S_project, S_proj \o <<"s">>, S_proj>>,
        repl |-> S_project] >>

\* \b before position i, given that s[i] is a word character
BoundaryBefore(s, i) == i = 1 \/ ~IsWordChar(s[i - 1])

\* \b after position j, given that s[j] is a word character
BoundaryAfter(s, j) == j = Len(s) \/ ~IsWordChar(s[j + 1])

AltMatchesAt(s, i, alt) ==
    /\ i + Len(alt) - 1 <= Len(s)
    /\ Lower(SubSeq(s, i, i + Len(alt) - 1)) = alt
    /\ BoundaryAfter(s, i + Len(alt) - 1)

\* length of the match of \b(alts)\b at position i, 0 when there is none
MatchLen(s, i, alts) ==
    IF ~BoundaryBefore(s, i) THEN 0
    ELSE LET ok == {a \in 1..Len(alts) : AltMatchesAt(s, i, alts[a])}
         IN IF ok = {} THEN 0
            ELSE Len(alts[CHOOSE a \in ok : \A b \in ok : a <= b])

\* re.sub(pattern, repl, s, flags=re.IGNORECASE): leftmost non-overlapping matches
RECURSIVE ReSubFrom(_, _, _)
ReSubFrom(s, i, fix) ==
    IF i > Len(s) THEN <<>>
    ELSE LET n == MatchLen(s, i, fix.alts)
         IN IF n > 0 THEN fix.repl \o ReSubFrom(s, i + n, fix)
            ELSE <<s[i]>> \o ReSubFrom(s, i + 1, fix)

RECURSIVE ApplyFixes(_, _)
ApplyFixes(q, k) ==
    IF k > Len(COMMON_FIXES) THEN q
    ELSE ApplyFixes(ReSubFrom(q, 1, COMMON_FIXES[k]), k + 1)

normalize_query(q) == ApplyFixes(Strip(q), 1)

---------------------------------------------------------------------------
(* The corpus: chunks upload_document can have written, none longer than   *)
(* the splitter's chunk_size of 1000 characters.  page_number 0 stands for *)
(* None (the chunk text was found on no single page).                      *)

DocIds == {"d1", "d2", "d3"}

Filename == [d \in DocIds |->
    CASE d = "d1" -> "a.pdf" [] d = "d2" -> "b.pdf" [] d = "d3" -> "c.pdf"]

T_aws        == <<"A","W","S"," ","s","c","o","r","e",":"," ","8","7","/","1","0","0">>
T_project    == <<"p","r","o","j","e","c","t"," ","c","h","a","t","b","o","t">>
T_internship == <<"i","n","t","e","r","n","s","h","i","p"," ","a","t"," ","a","c","m","e">>
T_foreign    == <<"f","o","r","e","i","g","n"," ","t","r","a","d","e">>
T_foreignkey == <<"a"," ","f","o","r","e","i","g","n"," ","k","e","y">>
T_call       == <<"c","a","l","l"," ","f","(","x">>
T_loops      == <<"l","o","o","p","s">>
T_skill      == <<"s","k","i","l","l","s">>

Chunk ==
    << [document_id |-> "d1", chunk_id |-> 0, text |-> T_aws,        page_number |-> 1],
       [document_id |-> "d1", chunk_id |-> 1, text |-> T_project,    page_number |-> 1],
       [document_id |-> "d1", chunk_id |-> 2, text |-> T_internship, page_number |-> 2],
       [document_id |-> "d2", chunk_id |-> 0, text |-> T_foreign,    page_number |-> 1],
       [document_id |-> "d2", chunk_id |-> 1, text |-> T_foreignkey, page_number |-> 0],
       [document_id |-> "d2", chunk_id |-> 2, text |-> T_call,       page_number |-> 2],
       [document_id |-> "d3", chunk_id |-> 0, text |-> T_loops \o Pad(205), page_number |-> 1],
       [document_id |-> "d3", chunk_id |-> 1, text |-> T_skill \o Pad(43), page_number |-> 1],
       [document_id |-> "d3", chunk_id |-> 2, text |-> T_loops \o Pad(44), page_number |-> 0] >>

Pids == 1..Len(Chunk)

PidsOf(D) == {p \in Pids : Chunk[p].document_id \in D}

\* the elements of a set of integers in increasing order
RECURSIVE SeqOfSet(_)
SeqOfSet(S) ==
    IF S = {} THEN <<>>
    ELSE LET m == CHOOSE x \in S : \A y \in S : x <= y
         IN <<m>> \o SeqOfSet(S \ {m})

\* upload_document: the section label stored with a chunk in the vector store
_infer_section(text) ==
    LET t == Lower(text)
    IN IF In(S_project, t) THEN S_project \o <<"s">>
       ELSE IF In(S_internship, t) \/ In(S_internship \o <<"s">>, t) THEN S_internship \o <<"s">>
       ELSE IF In(<<"e","d","u","c","a","t","i","o","n">>, t) THEN <<"e","d","u","c","a","t","i","o","n">>
       ELSE IF In(<<"s","k","i","l","l">>, t) THEN <<"s","k","i","l","l","s">>
       ELSE IF In(<<"e","x","p","e","r","i","e","n","c","e">>, t) THEN <<"e","x","p","e","r","i","e","n","c","e">>
       ELSE <<"o","t","h","e","r">>

\* the database after the documents D were uploaded
Uploaded(D) ==
    [documents |-> D, chunks |-> SeqOfSet(PidsOf(D)), vectors |-> PidsOf(D)]

---------------------------------------------------------------------------
(* Candidates: the dicts search_documents returns.  A candidate names its  *)
(* chunk and the path that produced it; the other keys are read off it.    *)

Cand(p, score, via) == [pid |-> p, score |-> score, via |-> via]

CText(c) == Chunk[c.pid].text

CDocId(c) == Chunk[c.pid].document_id

\* r.get("section"): only the vector store's metadata has one
CSection(c) == IF c.via = "vector" THEN _infer_section(CText(c)) ELSE <<>>

\* len(str(r.get("filename", "Unknown Document")))
CFilenameLen(c, d) ==
    IF c.via = "vector" \/ CDocId(c) \in d.documents THEN Len(Filename[CDocId(c)])
    ELSE Len("Unknown Document")

\* len(str(r.get("page_number", "Unknown Page"))): the vector metadata has no page
CPageLen(c) ==
    IF c.via = "vector" \/ Chunk[c.pid].page_number = 0 THEN Len("None")
    ELSE Digits(Chunk[c.pid].page_number)

---------------------------------------------------------------------------
(* lc_vector_store.similarity_search_with_similarity                       *)
(* The vector store is an external collaborator: what its two queries      *)
(* return (or that they raise) is an input, vs.                            *)

\* 1.0 / (1.0 + score) divides by zero when the raw score is -1.0
SimilarityRaises(raw) == raw = -100

\* the similarity given to one raw score, clamped to [0,1]
Similarity(raw) ==
    LET sim == IF 0 <= raw /\ raw <= 100 THEN raw
               ELSE IF 100 + raw > 0 THEN 10000 \div (100 + raw)
               ELSE 0 - (10000 \div (0 - (100 + raw)))
    IN IF sim < 0 THEN 0 ELSE IF sim > 100 THEN 100 ELSE sim

\* vs.scored: similarity_search_with_score; vs.ranked: the retriever
similarity_search_with_similarity(vs) ==
    LET native_ok == /\ ~vs.scored.raises
                     /\ \A i \in 1..Len(vs.scored.items) : ~SimilarityRaises(vs.scored.items[i][2])
        normalized == [i \in 1..Len(vs.scored.items) |->
                          [pid |-> vs.scored.items[i][1],
                           similarity |-> Similarity(vs.scored.items[i][2])]]
        total == IF Len(vs.ranked.items) > 1 THEN Len(vs.ranked.items) ELSE 1
        ranked == [i \in 1..Len(vs.ranked.items) |->
                      [pid |-> vs.ranked.items[i],
                       similarity |-> 100 - ((100 * (i - 1)) \div total)]]
    IN IF native_ok /\ normalized # <<>> THEN [raises |-> FALSE, items |-> normalized]
       ELSE IF vs.ranked.raises THEN [raises |-> TRUE, items |-> <<>>]
       ELSE [raises |-> FALSE, items |-> ranked]

---------------------------------------------------------------------------
(* document_service.search_documents *)

PROJECT_BONUS == 20
COMPETITOR_PENALTY == 10

\* bonus(r) of search_documents: looks at the section and the text
bonus_NoInternshipPenalty(q, r) ==
    LET s == Lower(CSection(r))
        text == Lower(CText(r))
        hasP == In(S_project, s) \/ In(S_project, text)
        hasI == In(S_internship, s) \/ In(S_internship, text)
    IN (IF In(S_project, q) THEN (IF hasP THEN PROJECT_BONUS ELSE 0) ELSE 0)
     + (IF In(S_internship, q) THEN (IF hasI THEN PROJECT_BONUS ELSE 0) - (IF hasP THEN COMPETITOR_PENALTY ELSE 0) ELSE 0)

bonus(q, r) ==
    LET s == Lower(CSection(r))
        text == Lower(CText(r))
        hasP == In(S_project, s) \/ In(S_project, text)
        hasI == In(S_internship, s) \/ In(S_internship, text)
    IN (IF In(S_project, q) THEN (IF hasP THEN PROJECT_BONUS ELSE 0) - (IF hasI THEN COMPETITOR_PENALTY ELSE 0) ELSE 0)
     + (IF In(S_internship, q) THEN (IF hasI THEN PROJECT_BONUS ELSE 0) - (IF hasP THEN COMPETITOR_PENALTY ELSE 0) ELSE 0)

\* list.sort(key=..., reverse=True) and sorted(..., reverse=True) are stable:
\* an element goes behind every element whose key is not smaller
RECURSIVE InsertDesc_BeforeEqual(_, _)
RECURSIVE InsertDesc(_, _)
InsertDesc_BeforeEqual(sorted, x) ==
    IF sorted = <<>> THEN <<x>>
    ELSE IF x.key >= Head(sorted).key THEN <<x>> \o sorted
    ELSE <<Head(sorted)>> \o InsertDesc_BeforeEqual(Tail(sorted), x)

InsertDesc(sorted, x) ==
    IF sorted = <<>> THEN <<x>>
    ELSE IF x.key > Head(sorted).key THEN <<x>> \o sorted
    ELSE <<Head(sorted)>> \o InsertDesc(Tail(sorted), x)

RECURSIVE SortFrom(_, _, _)
SortFrom(keyed, i, acc) ==
    IF i > Len(keyed) THEN acc ELSE SortFrom(keyed, i + 1, InsertDesc(acc, keyed[i]))

\* items sorted by keys[i] descending
SortDesc(items, keys) ==
    LET keyed == [i \in 1..Len(items) |-> [item |-> items[i], key |-> keys[i]]]
        out == SortFrom(keyed, 1, <<>>)
    IN [i \in 1..Len(out) |-> out[i].item]

\* what the regex engine of the database does with one alternative of the
\* pattern: characters match case-insensitively, \s+ is a run of whitespace
RECURSIVE RegexMatchAt(_, _, _, _)
RegexMatchAt(pat, i, text, j) ==
    IF i > Len(pat) THEN TRUE
    ELSE IF pat[i] = "\\" /\ i + 2 <= Len(pat) /\ pat[i + 1] = "s" /\ pat[i + 2] = "+"
    THEN \E n \in 1..(Len(text) - j + 1) :
            /\ \A m \in j..(j + n - 1) : IsSpace(text[m])
            /\ RegexMatchAt(pat, i + 3, text, j + n)
    ELSE /\ j <= Len(text)
         /\ LowerChar(pat[i]) = LowerChar(text[j])
         /\ RegexMatchAt(pat, i + 1, text, j + 1)

RegexSearch(pat, text) == \E j \in 1..(Len(text) + 1) : RegexMatchAt(pat, 1, text, j)

\* an unbalanced parenthesis makes the database reject the pattern
RegexInvalid(pat) == \E i \in 1..Len(pat) : pat[i] = "("

Min(a, b) == IF a < b THEN a ELSE b

\* {"document_id": document_id} in the "$and" of the search filter, which is
\* there only "if document_id"
InDocument_Any(p, document_id) == TRUE

InDocument(p, document_id) == document_id # None => Chunk[p].document_id = document_id

\* "score": 0.8 of the $addFields stage
FALLBACK_SCORE == 80

\* fb: whether the aggregation on document_chunks raises
_fallback_text_search(query, document_id, top_k, d, fb) ==
    LET query_words == Split(Lower(query))
        search_patterns ==
            << ReplaceSpace(query, <<"\\", "s", "+">>), query >>
            \o query_words
            \o (IF Len(query_words) > 1
                THEN << Join(<<>>, query_words), Join(<<"-">>, query_words),
                        Join(<<"_">>, query_words) >>
                ELSE <<>>)
        NonEmpty(p) == p # <<>>
        alternatives == SelectSeq(search_patterns, NonEmpty)
        word_filters == IF Len(query_words) > 1 THEN query_words ELSE <<>>
        invalid == \E k \in 1..Len(alternatives) : RegexInvalid(alternatives[k])
        TextMatches(text) ==
            \/ alternatives = <<>>
            \/ \E k \in 1..Len(alternatives) : RegexSearch(alternatives[k], text)
            \/ \E k \in 1..Len(word_filters) : RegexSearch(word_filters[k], text)
        Selected(p) ==
            /\ TextMatches(Chunk[p].text)
            /\ InDocument(p, document_id)
        matched == SelectSeq(d.chunks, Selected)
        limited == SubSeq(matched, 1, Min(Len(matched), top_k * 2))
        results == SubSeq(limited, 1, Min(Len(limited), top_k))
    IN IF fb \/ invalid THEN <<>>
       ELSE [i \in 1..Len(results) |-> Cand(results[i], FALLBACK_SCORE, "fallback")]

\* "if vector_results:" is reached only when the vector search did not raise
UseVectorResults_NoEmptyCheck(raises, vector_results) == ~raises

UseVectorResults(raises, vector_results) == ~raises /\ vector_results # <<>>

\* returns the list and, for the record, which path produced it and the
\* order in which the store returned the candidates
search_documents(query, document_id, top_k, d, vs, fb) ==
    LET v == similarity_search_with_similarity(vs)
        vector_results == [i \in 1..Len(v.items) |->
                              Cand(v.items[i].pid, v.items[i].similarity, "vector")]
        q == Lower(query)
        keys == [i \in 1..Len(vector_results) |->
                    vector_results[i].score + bonus(q, vector_results[i])]
    IN IF UseVectorResults(v.raises, vector_results)
       THEN [results |-> SortDesc(vector_results, keys),
             vector |-> IF vector_results = <<>> THEN "empty" ELSE "results",
             fallback_ran |-> FALSE,
             retrieved |-> [i \in 1..Len(vector_results) |-> vector_results[i].pid]]
       ELSE LET f == _fallback_text_search(query, document_id, top_k, d, fb)
            IN [results |-> f,
                vector |-> IF v.raises THEN "raised" ELSE "empty",
                fallback_ran |-> TRUE,
                retrieved |-> [i \in 1..Len(f) |-> f[i].pid]]

---------------------------------------------------------------------------
(* openrouter_service.chat_completion                                      *)
(* The HTTP exchange with the Generator is an input, http.                 *)

HttpOutcomes ==
    {"200", "200_no_choices", "429", "401", "400", "500", "timeout", "network_error"}

Returned(body) == [raises |-> "", msg |-> "", body |-> body]
Raised(type, msg) == [raises |-> type, msg |-> msg, body |-> ""]

chat_completion(http) ==
    CASE http = "200" -> Returned("completion")
      [] http = "200_no_choices" -> Returned("no_choices")
      [] http = "429" -> Raised("RateLimitError", "API rate limit exceeded. Rate limit exceeded")
      [] http = "401" -> Raised("AuthenticationError", "Invalid API key. Please check your OpenRouter configuration.")
      [] http = "400" -> Raised("APIError", "Bad request: Bad request")
      [] http = "500" -> Raised("APIError", "OpenRouter API error: 500 - ")
      [] http = "timeout" -> Raised("APIError", "Request timed out. Please try again.")
      [] http = "network_error" -> Raised("APIError", "Network error: ")

---------------------------------------------------------------------------
(* Answers: an f-string is its fixed text plus the values formatted in     *)

Text(fixed, query, detail) == [fixed |-> fixed, query |-> query, detail |-> detail]

NoAnswer == Text("", <<>>, "")

NoContextAnswer(query) ==
    Text("I couldn't find any relevant information about '{query}' in the uploaded documents. Please try asking a different question or check if the relevant document has been uploaded correctly.",
         query, "")

GeneralKnowledgeAnswer(query) ==
    Text("I couldn't find specific information about '{query}' in the uploaded documents. This appears to be a general knowledge question, but I can only answer based on the content in your uploaded documents.",
         query, "")

GeneratedAnswer == Text("{content}", <<>>, "choices[0].message.content")

RateLimitAnswer(e) ==
    Text("I'm sorry, but I've reached my daily limit for free AI responses. {e}. Please try again tomorrow or consider upgrading your API plan.",
         <<>>, e)

AuthenticationAnswer(e) ==
    Text("Authentication error: {e}. Please check the API configuration.", <<>>, e)

APIErrorAnswer(e) ==
    Text("I'm experiencing technical difficulties: {e}. Please try again later.", <<>>, e)

CourseNoContextAnswer ==
    Text("I couldn't find relevant information to answer your question. Please try rephrasing or check if the course content is available.",
         <<>>, "")

CourseErrorAnswer ==
    Text("I encountered an error while processing your question. Please try again.", <<>>, "")

\* the except clauses shared by document_chat_answer and simple_chat
ErrorAnswer(r) ==
    CASE r.raises = "RateLimitError" -> RateLimitAnswer(r.msg)
      [] r.raises = "AuthenticationError" -> AuthenticationAnswer(r.msg)
      [] r.raises = "APIError" -> APIErrorAnswer(r.msg)

Ok(a, citations, usage) ==
    [status |-> 200, answer |-> a, citations |-> citations, usage |-> usage]

HTTPException(code) ==
    [status |-> code, answer |-> NoAnswer, citations |-> <<>>, usage |-> "none"]

NoReply == [status |-> 0, answer |-> NoAnswer, citations |-> <<>>, usage |-> "none"]

---------------------------------------------------------------------------
(* document_chat.document_chat_answer: the code between its await points   *)

S_what_is_the == <<"w","h","a","t"," ","i","s"," ","t","h","e">>
S_what_is     == <<"w","h","a","t"," ","i","s">>
S_score       == <<"s","c","o","r","e">>

\* the query the handler searches with
ProcessedQuery(raw) ==
    LET q == normalize_query(raw)
        query_lower == Lower(q)
    IN IF In(S_what_is_the, query_lower) /\ In(S_score, query_lower)
       THEN (IF In(<<"a","w","s">>, query_lower) THEN <<"A","W","S"," ","s","c","o","r","e">>
             ELSE IF In(<<"c","g","p","a">>, query_lower) THEN <<"C","G","P","A">>
             ELSE IF In(<<"l","e","e","t","c","o","d","e">>, query_lower)
                  THEN <<"L","e","e","t","c","o","d","e"," ","r","a","t","i","n","g">>
             ELSE q)
       ELSE IF In(S_what_is, query_lower) /\ In(<<"c","e","r","t","i","f","i","c","a","t","e">>, query_lower)
       THEN <<"c","e","r","t","i","f","i","c","a","t","e","s">>
       ELSE IF In(S_what_is, query_lower) /\ In(<<"l","i","n","k","e","d","i","n">>, query_lower)
       THEN <<"L","i","n","k","e","d","I","n">>
       ELSE IF In(S_what_is, query_lower) /\ In(S_project, query_lower)
       THEN S_project \o <<"s">>
       ELSE q

\* "if not search_results": an empty list is falsy
NotSearchResults_IsNone(results) == FALSE

NotSearchResults(results) == results = <<>>

\* request.top_k or 5   (top_k 0 also stands for a missing top_k)
TopK(top_k) == IF top_k = 0 THEN 5 ELSE top_k

\* _bonus(r) of document_chat_answer: looks at the text only
_bonus(ql, r) ==
    LET t == Lower(CText(r))
    IN (IF In(S_project, ql)
        THEN (IF In(S_project, t) THEN PROJECT_BONUS ELSE 0)
             - (IF In(S_internship, t) THEN COMPETITOR_PENALTY ELSE 0)
        ELSE 0)
     + (IF In(S_internship, ql)
        THEN (IF In(S_internship, t) THEN PROJECT_BONUS ELSE 0)
             - (IF In(S_project, t) THEN COMPETITOR_PENALTY ELSE 0)
        ELSE 0)

RelevantResults(query, top_k, results) ==
    LET top == SubSeq(results, 1, Min(Len(results), TopK(top_k)))
        keys == [i \in 1..Len(top) |-> top[i].score + _bonus(Lower(query), top[i])]
    IN SortDesc(top, keys)

general_knowledge_indicators ==
    << S_what_is,
       <<"d","e","f","i","n","e">>,
       <<"e","x","p","l","a","i","n">>,
       <<"h","o","w"," ","t","o"," ","c","o","o","k">>,
       <<"c","a","p","i","t","a","l"," ","o","f">>,
       <<"g","e","n","e","r","a","l"," ","k","n","o","w","l","e","d","g","e">>,
       <<"c","o","m","m","o","n"," ","k","n","o","w","l","e","d","g","e">>,
       <<"e","v","e","r","y","o","n","e"," ","k","n","o","w","s">> >>

is_general_knowledge_query(query) ==
    \E k \in 1..Len(general_knowledge_indicators) :
        In(general_knowledge_indicators[k], Lower(query))

\* " ".join([r.get("text", "") for r in relevant_results]).lower()
DocumentContent(relevant) ==
    Lower(Join(<<" ">>, [i \in 1..Len(relevant) |-> CText(relevant[i])]))

\* the branch that assigns the general-knowledge answer
GeneralKnowledgeBranch(query, relevant) ==
    /\ is_general_knowledge_query(query)
    /\ LET words == Split(Lower(query))
       IN ~\E k \in 1..Len(words) : In(words[k], DocumentContent(relevant))

\* len(source_text) of the i-th result; a score in [0,1] prints as 4 characters
SourceTextLen(i, r, d) ==
    Len("Source ") + Digits(i) + Len(" (from ") + CFilenameLen(r, d)
    + Len(", page ") + CPageLen(r) + Len(", relevance: ") + Len("0.00")
    + Len("):") + 1 + Len(CText(r))

\* the loop that fills context_parts, with its break
RECURSIVE BuildContext_Skip(_, _, _, _, _, _)
RECURSIVE BuildContext(_, _, _, _, _, _)
BuildContext_Skip(relevant, i, total_length, parts, limit, d) ==
    IF i > Len(relevant) THEN parts
    ELSE IF total_length + SourceTextLen(i, relevant[i], d) > limit
    THEN BuildContext_Skip(relevant, i + 1, total_length, parts, limit, d)
    ELSE BuildContext_Skip(relevant, i + 1, total_length + SourceTextLen(i, relevant[i], d),
                           Append(parts, relevant[i]), limit, d)

BuildContext(relevant, i, total_length, parts, limit, d) ==
    IF i > Len(relevant) THEN parts
    ELSE IF total_length + SourceTextLen(i, relevant[i], d) > limit THEN parts
    ELSE BuildContext(relevant, i + 1, total_length + SourceTextLen(i, relevant[i], d),
                      Append(parts, relevant[i]), limit, d)

\* the local variable response where "if response is None" reads it: it is
\* initialised to None and the general-knowledge branch assigns None again
ResponseBeforeLLM(general_knowledge_branch) == None

\* the "content" of a citation
CitationContent(text) ==
    IF Len(text) > 200 THEN SubSeq(text, 1, 200) \o <<".", ".", ".">> ELSE text

Citations(results, d) ==
    [i \in 1..Len(results) |->
        [source_id |-> CDocId(results[i]),
         pid |-> results[i].pid,
         content |-> CitationContent(CText(results[i])),
         confidence |-> results[i].score]]

---------------------------------------------------------------------------
(* Inputs *)

MaxVec == 3          \* most results one vector-store query returns

Q_aws     == <<"W","h","a","t"," ","i","s"," ","t","h","e"," ","A","W","S"," ","s","c","o","r","e">>
Q_define  == <<"d","e","f","i","n","e"," ","r","e","c","u","r","s","i","o","n">>
Q_projs   == <<"p","r","o","j","s"," ">>
Q_explain == <<"e","x","p","l","a","i","n"," ","i","n","t","e","r","s","h","i","p">>
Q_foreign == <<"f","o","r","e","i","g","n"," ","k","e","y">>
Q_fx      == <<"f","(","x">>

Queries == {Q_aws, Q_define, Q_projs, Q_explain, Q_foreign, Q_fx}

Scopes == {None} \cup DocIds

TopKs == {0, 1}

RawScores == {50, 80}

RAG_MAX_CONTEXT_LENGTH == 4000

\* the uploaded documents and the context limit of a deployment: the default
\* limit, and for the document with the long chunks also a limit of 200 set
\* in the environment
Deployments ==
    {<<D, RAG_MAX_CONTEXT_LENGTH>> : D \in {{}, {"d1"}, {"d2"}, {"d3"}}}
    \cup {<<{"d3"}, 200>>}

\* the sequences of n distinct elements of S
Arrangements(S, n) ==
    {s \in [1..n -> S] : \A i, j \in 1..n : i # j => s[i] # s[j]}

\* what the store can return for a query with filter scope and limit k
StoreLists(d, scope, k) ==
    LET inscope == {p \in d.vectors : scope # None => Chunk[p].document_id = scope}
    IN UNION {Arrangements(inscope, n) : n \in 0..Min(Min(k, MaxVec), Cardinality(inscope))}

StoreRaises == [raises |-> TRUE, items |-> <<>>]

StoreOutcomes(d, scope, k) ==
    LET lists == StoreLists(d, scope, k)
        scored == UNION {{[raises |-> FALSE,
                           items |-> [i \in 1..Len(l) |-> <<l[i], r[i]>>]] :
                              r \in [1..Len(l) -> RawScores]} : l \in lists \ {<<>>}}
        ranked == {StoreRaises} \cup {[raises |-> FALSE, items |-> l] : l \in lists}
    IN {[scored |-> x, ranked |-> StoreRaises] : x \in scored}
       \cup {[scored |-> x, ranked |-> y] :
                x \in {StoreRaises, [raises |-> FALSE, items |-> <<>>]}, y \in ranked}

---------------------------------------------------------------------------
(* cache_service.CacheService: data *)

CACHE_TTL == 1      \* settings.CACHE_TTL, in ticks of the clock
MaxClock == CACHE_TTL + 1

CQ_Foo == <<"F","o","o"," ">>
CQ_foo == <<"f","o","o">>

CacheQueries == {CQ_Foo, CQ_foo}
CacheDocs == {"d1", "d2"}
CacheTopKs == {5}

\* the md5 of the canonical JSON is one-to-one on what it digests
_generate_cache_key_AsGiven(query, document_id, top_k) ==
    <<Strip(query), document_id, top_k>>

_generate_cache_key(query, document_id, top_k) ==
    <<Strip(Lower(query)), document_id, top_k>>

CacheKeys ==
    {_generate_cache_key(q, d, k) : q \in CacheQueries, d \in CacheDocs, k \in CacheTopKs}

ResultsPayloads == {"results_A", "results_B"}
ChatPayloads == {"chat_A", "chat_B"}

\* self.cache.get(cache_key) of a key that is not in the dictionary
NoEntry == [field |-> "none", payload |-> None, timestamp |-> 0]

\* the dictionary an entry is: the payload under "results" or under
\* "chat_response", and the time of the put (the copies of query,
\* document_id and top_k are never read)
Entry(field, payload, timestamp) ==
    [field |-> field, payload |-> payload, timestamp |-> timestamp]

\* cache_entry.get(field)
EntryGet(cache_entry, field) ==
    IF cache_entry.field = field THEN cache_entry.payload ELSE None

_is_expired_Reversed(cache_entry, t, cache_ttl) ==
    IF cache_entry = NoEntry THEN TRUE
    ELSE (cache_entry.timestamp - t) > cache_ttl

_is_expired(cache_entry, t, cache_ttl) ==
    IF cache_entry = NoEntry THEN TRUE
    ELSE (t - cache_entry.timestamp) > cache_ttl

\* self.cache[cache_key] = entry
StoreEntry_IfAbsent(entries, cache_key, entry) ==
    IF entries[cache_key] = NoEntry THEN [entries EXCEPT ![cache_key] = entry]
    ELSE entries

StoreEntry(entries, cache_key, entry) == [entries EXCEPT ![cache_key] = entry]

\* del self.cache[cache_key]
DelEntry(entries, cache_key) == [entries EXCEPT ![cache_key] = NoEntry]

\* the last call on the cache service, what it was given and what it
\* returned; just_put is the payload of the put right before a matching get,
\* and overwrote tells that this put replaced an entry with another payload
\* the arguments of a call as given, what a get found under its key
\* ("none", "fresh" or "expired"), and the put that came right before a get
NoArgs == [query |-> <<>>, document_id |-> None, top_k |-> 0]

NoPrev == [op |-> "none", args |-> NoArgs, arg |-> None]

Call(op, cache_key, arg, ret, just_put, overwrote) ==
    [op |-> op, cache_key |-> cache_key, arg |-> arg, ret |-> ret,
     just_put |-> just_put, overwrote |-> overwrote,
     args |-> NoArgs, found |-> "none", prev |-> NoPrev]

NoOp == Call("none", <<>>, None, None, None, FALSE)

---------------------------------------------------------------------------
(* State *)

NoThreads == <<>>

NoCall == [f |-> "none"]

NoReq == [op |-> "none", query |-> <<>>, course_id |-> None, top_k |-> 0]

NoTrace == [vector |-> "none", fallback_ran |-> FALSE, fallback_raised |-> FALSE,
            retrieved |-> <<>>]

NoGen == [calls |-> 0, http |-> "none"]

Idle ==
    /\ pc = "idle"
    /\ req = NoReq
    /\ search_results = <<>>
    /\ relevant_results = <<>>
    /\ rtrace = NoTrace
    /\ context_parts = <<>>
    /\ gen = NoGen
    /\ answer = NoAnswer
    /\ reply = NoReply

\* CacheService.__init__: an empty cache; ttl and switch come from settings
CacheInit(enabled) ==
    /\ cache = [cache |-> [k \in CacheKeys |-> NoEntry],
                cache_ttl |-> CACHE_TTL,
                enabled |-> enabled]
    /\ now = 0
    /\ lastop = NoOp

\* no request is remembered unless a specification starts with keep = TRUE
NoServed == [keep |-> FALSE, last |-> NoReq]

\* no thread is inside the CacheService, no function is being applied
Quiet ==
    /\ thr = NoThreads
    /\ call = NoCall

Init ==
    /\ \E dep \in Deployments :
          /\ db = Uploaded(dep[1])
          /\ settings = [RAG_MAX_CONTEXT_LENGTH |-> dep[2]]
    /\ Idle
    /\ CacheInit(TRUE)
    /\ served = NoServed
    /\ Quiet

cachevars == <<cache, now, lastop, served, thr, call>>

---------------------------------------------------------------------------
(* POST /chat of document_chat: document_chat_answer *)

ChatReceive ==
    /\ pc = "idle"
    /\ \E raw \in Queries, course_id \in Scopes, top_k \in TopKs :
          req' = [op |-> "document_chat", query |-> ProcessedQuery(raw),
                  course_id |-> course_id, top_k |-> top_k]
    /\ pc' = "searching"
    /\ UNCHANGED <<db, settings, search_results, relevant_results, rtrace,
                   context_parts, gen, answer, reply, cachevars>>

\* from the return of search_documents to the call of the Generator, or to
\* the return of the handler when the Generator is not called
ChatSearch ==
    /\ pc = "searching"
    /\ req.op = "document_chat"
    /\ \E vs \in StoreOutcomes(db, req.course_id, TopK(req.top_k)), fb \in BOOLEAN :
          LET r == search_documents(req.query, req.course_id, TopK(req.top_k), db, vs, fb)
              relevant == RelevantResults(req.query, req.top_k, r.results)
              gk == GeneralKnowledgeBranch(req.query, relevant)
          IN /\ search_results' = r.results
             /\ rtrace' = [vector |-> r.vector, fallback_ran |-> r.fallback_ran,
                           fallback_raised |-> r.fallback_ran /\ fb,
                           retrieved |-> r.retrieved]
             /\ IF NotSearchResults(r.results)
                THEN /\ answer' = NoContextAnswer(req.query)
                     /\ reply' = Ok(NoContextAnswer(req.query), <<>>, "none")
                     /\ pc' = "done"
                     /\ UNCHANGED <<relevant_results, context_parts, gen>>
                ELSE /\ relevant_results' = relevant
                     /\ answer' = IF gk THEN GeneralKnowledgeAnswer(req.query) ELSE NoAnswer
                     /\ IF ResponseBeforeLLM(gk) = None
                        THEN /\ context_parts' = BuildContext(relevant, 1, 0, <<>>,
                                                    settings.RAG_MAX_CONTEXT_LENGTH, db)
                             /\ gen' = [calls |-> gen.calls + 1, http |-> "pending"]
                             /\ pc' = "generating"
                             /\ UNCHANGED reply
                        ELSE /\ reply' = Ok(GeneralKnowledgeAnswer(req.query),
                                            Citations(relevant, db), "none")
                             /\ pc' = "done"
                             /\ UNCHANGED <<context_parts, gen>>
    /\ UNCHANGED <<db, settings, req, cachevars>>

\* from the return of chat_completion to the return of the handler
ChatGenerate ==
    /\ pc = "generating"
    /\ req.op = "document_chat"
    /\ \E http \in HttpOutcomes :
          LET r == chat_completion(http)
          IN /\ gen' = [gen EXCEPT !.http = http]
             /\ IF r.raises # ""
                THEN /\ answer' = ErrorAnswer(r)
                     /\ reply' = Ok(ErrorAnswer(r), Citations(relevant_results, db), "none")
                ELSE IF r.body = "completion"
                THEN /\ answer' = GeneratedAnswer
                     /\ reply' = Ok(GeneratedAnswer, Citations(relevant_results, db), "usage")
                ELSE \* KeyError at response['choices']: the outer except
                     /\ answer' = answer
                     /\ reply' = HTTPException(500)
    /\ pc' = "done"
    /\ UNCHANGED <<db, settings, req, search_results, relevant_results, rtrace,
                   context_parts, cachevars>>

\* the response has been sent; the handler's locals are gone
Return ==
    /\ pc = "done"
    /\ pc' = "idle"
    /\ req' = NoReq
    /\ search_results' = <<>>
    /\ relevant_results' = <<>>
    /\ rtrace' = NoTrace
    /\ context_parts' = <<>>
    /\ gen' = NoGen
    /\ answer' = NoAnswer
    /\ reply' = NoReply
    /\ served' = IF served.keep THEN [served EXCEPT !.last = req] ELSE served
    /\ UNCHANGED <<db, settings, cache, now, lastop, thr, call>>

---------------------------------------------------------------------------
(* POST /answer of chat: vector_search.search_and_generate_answer          *)

\* what the two queries on the course collection return: the vector search
\* keeps scores of at least min_score, the text search is the fallback
CourseOutcomes ==
    LET lists == {<<>>, << <<1, 90>> >>, << <<2, 90>>, <<1, 75>> >>}
        out == {[raises |-> TRUE, items |-> <<>>]}
               \cup {[raises |-> FALSE, items |-> l] : l \in lists}
    IN {[vector |-> v, text |-> t] : v \in out, t \in out}

\* the except clause falls back to the text search, which returns [] when it fails
search_similar_content(cs) ==
    LET items == IF ~cs.vector.raises THEN cs.vector.items
                 ELSE IF cs.text.raises THEN <<>>
                 ELSE cs.text.items
    IN [i \in 1..Len(items) |-> Cand(items[i][1], items[i][2], "course")]

\* chat_completion returns response.json(), a dict: it has keys, no attributes
DictHasAttribute(name) == FALSE

CourseReceive ==
    /\ pc = "idle"
    /\ \E raw \in {Q_aws, Q_define}, course_id \in {None, "c1"} :
          req' = [op |-> "course_answer", query |-> raw, course_id |-> course_id, top_k |-> 5]
    /\ pc' = "searching"
    /\ UNCHANGED <<db, settings, search_results, relevant_results, rtrace,
                   context_parts, gen, answer, reply, cachevars>>

CourseSearch ==
    /\ pc = "searching"
    /\ req.op = "course_answer"
    /\ \E cs \in CourseOutcomes :
          LET results == search_similar_content(cs)
          IN /\ search_results' = results
             /\ rtrace' = [vector |-> IF cs.vector.raises THEN "raised"
                                      ELSE IF cs.vector.items = <<>> THEN "empty" ELSE "results",
                           fallback_ran |-> cs.vector.raises,
                           fallback_raised |-> cs.vector.raises /\ cs.text.raises,
                           retrieved |-> [i \in 1..Len(results) |-> results[i].pid]]
             /\ IF NotSearchResults(results)
                THEN /\ answer' = CourseNoContextAnswer
                     /\ reply' = Ok(CourseNoContextAnswer, <<>>, "zero")
                     /\ pc' = "done"
                     /\ UNCHANGED gen
                ELSE /\ gen' = [calls |-> gen.calls + 1, http |-> "pending"]
                     /\ pc' = "generating"
                     /\ UNCHANGED <<answer, reply>>
    /\ UNCHANGED <<db, settings, req, relevant_results, context_parts, cachevars>>

CourseGenerate ==
    /\ pc = "generating"
    /\ req.op = "course_answer"
    /\ \E http \in HttpOutcomes :
          LET r == chat_completion(http)
          IN /\ gen' = [gen EXCEPT !.http = http]
             /\ IF r.raises = "" /\ r.body = "completion" /\ DictHasAttribute("choices")
                THEN /\ answer' = GeneratedAnswer
                     /\ reply' = Ok(GeneratedAnswer, Citations(search_results, db), "usage")
                ELSE \* except Exception: one answer for every failure
                     /\ answer' = CourseErrorAnswer
                     /\ reply' = Ok(CourseErrorAnswer, <<>>, "zero")
    /\ pc' = "done"
    /\ UNCHANGED <<db, settings, req, search_results, relevant_results, rtrace,
                   context_parts, cachevars>>

---------------------------------------------------------------------------
(* POST /chat of simple_chat: simple_chat *)

SimpleReceive ==
    /\ pc = "idle"
    /\ \E query \in {<<>>, Q_define} :
          /\ req' = [op |-> "simple_chat", query |-> query, course_id |-> None, top_k |-> 0]
          /\ IF query = <<>>
             THEN \* HTTPException(400) is caught by the outer except Exception
                  /\ reply' = HTTPException(500)
                  /\ pc' = "done"
                  /\ UNCHANGED gen
             ELSE /\ gen' = [calls |-> gen.calls + 1, http |-> "pending"]
                  /\ pc' = "generating"
                  /\ UNCHANGED reply
    /\ UNCHANGED <<db, settings, search_results, relevant_results, rtrace,
                   context_parts, answer, cachevars>>

SimpleGenerate ==
    /\ pc = "generating"
    /\ req.op = "simple_chat"
    /\ \E http \in HttpOutcomes :
          LET r == chat_completion(http)
          IN /\ gen' = [gen EXCEPT !.http = http]
             /\ IF r.raises # ""
                THEN /\ answer' = ErrorAnswer(r)
                     /\ reply' = Ok(ErrorAnswer(r), <<>>, "zero")
                ELSE IF r.body = "completion"
                THEN /\ answer' = GeneratedAnswer
                     /\ reply' = Ok(GeneratedAnswer, <<>>, "usage")
                ELSE /\ answer' = answer
                     /\ reply' = HTTPException(500)
    /\ pc' = "done"
    /\ UNCHANGED <<db, settings, req, search_results, relevant_results, rtrace,
                   context_parts, cachevars>>

Next ==
    \/ ChatReceive \/ ChatSearch \/ ChatGenerate
    \/ CourseReceive \/ CourseSearch \/ CourseGenerate
    \/ SimpleReceive \/ SimpleGenerate
    \/ Return

Spec == Init /\ [][Next]_vars

---------------------------------------------------------------------------
(* cache_service.CacheService: operations *)

servicevars == <<cache, now, lastop, served, thr>>

handlervars == <<db, settings, pc, req, search_results, relevant_results, rtrace,
                 context_parts, gen, answer, reply>>

requestvars == <<handlervars, served, thr, call>>

\* "if not self.enabled: return"
NotEnabled_Never(c) == FALSE

NotEnabled(c) == ~c.enabled

Sets == {"set_search_results", "set_chat_response"}

\* the put of either kind
Set(op, field, payloads) ==
    \E q \in CacheQueries, d \in CacheDocs, k \in CacheTopKs, payload \in payloads :
        LET cache_key == _generate_cache_key(q, d, k)
        IN /\ IF NotEnabled(cache)
              THEN cache' = cache
              ELSE cache' = [cache EXCEPT !.cache =
                                StoreEntry(@, cache_key, Entry(field, payload, now))]
           /\ lastop' = [Call(op, cache_key, payload, None, None,
                              /\ cache.enabled
                              /\ cache.cache[cache_key] # NoEntry
                              /\ cache.cache[cache_key].payload # payload)
                            EXCEPT !.args = [query |-> q, document_id |-> d, top_k |-> k]]
           /\ UNCHANGED <<now, requestvars>>

\* the get of either kind; it deletes the entry it finds expired
Get(op, field, set_op) ==
    \E q \in CacheQueries, d \in CacheDocs, k \in CacheTopKs :
        LET cache_key == _generate_cache_key(q, d, k)
            cache_entry == cache.cache[cache_key]
            hit == cache_entry # NoEntry /\ ~_is_expired(cache_entry, now, cache.cache_ttl)
            after_put == lastop.op = set_op /\ lastop.cache_key = cache_key
        IN /\ IF NotEnabled(cache) \/ hit
              THEN cache' = cache
              ELSE cache' = [cache EXCEPT !.cache = DelEntry(@, cache_key)]
           /\ lastop' = [Call(op, cache_key, None,
                              IF ~NotEnabled(cache) /\ hit THEN EntryGet(cache_entry, field) ELSE None,
                              IF after_put THEN lastop.arg ELSE None,
                              after_put /\ lastop.overwrote)
                            EXCEPT !.args = [query |-> q, document_id |-> d, top_k |-> k],
                                   !.found = IF cache_entry = NoEntry THEN "none"
                                             ELSE IF now - cache_entry.timestamp > cache.cache_ttl
                                                  THEN "expired" ELSE "fresh",
                                   !.prev = IF lastop.op \in Sets
                                            THEN [op |-> lastop.op, args |-> lastop.args,
                                                  arg |-> lastop.arg]
                                            ELSE NoPrev]
           /\ UNCHANGED <<now, requestvars>>

set_search_results == Set("set_search_results", "results", ResultsPayloads)

get_search_results == Get("get_search_results", "results", "set_search_results")

set_chat_response == Set("set_chat_response", "chat_response", ChatPayloads)

get_chat_response == Get("get_chat_response", "chat_response", "set_chat_response")

clear_cache ==
    /\ cache' = [cache EXCEPT !.cache = [k \in CacheKeys |-> NoEntry]]
    /\ lastop' = Call("clear_cache", <<>>, None, None, None, FALSE)
    /\ UNCHANGED <<now, requestvars>>

cleanup_expired ==
    /\ cache' = [cache EXCEPT !.cache =
                    [k \in CacheKeys |->
                        IF _is_expired(@[k], now, cache.cache_ttl) THEN NoEntry ELSE @[k]]]
    /\ lastop' = Call("cleanup_expired", <<>>, None, None, None, FALSE)
    /\ UNCHANGED <<now, requestvars>>

\* time.time() moves on between two calls
Tick ==
    /\ now < MaxClock
    /\ now' = now + 1
    /\ lastop' = Call("tick", <<>>, None, None, None, FALSE)
    /\ UNCHANGED <<cache, requestvars>>

InitCache ==
    /\ db = Uploaded({})
    /\ settings = [RAG_MAX_CONTEXT_LENGTH |-> RAG_MAX_CONTEXT_LENGTH]
    /\ Idle
    /\ \E enabled \in BOOLEAN : CacheInit(enabled)
    /\ served = NoServed
    /\ Quiet

NextCache ==
    \/ set_search_results \/ get_search_results
    \/ set_chat_response \/ get_chat_response
    \/ clear_cache \/ cleanup_expired
    \/ Tick

SpecCache == InitCache /\ [][NextCache]_vars

---------------------------------------------------------------------------
(* cache_service.CacheService called from several threads: the methods    *)
(* take no lock, so another thread can run between two statements          *)

Threads == {"t1", "t2"}

\* the threads work on the keys of one document
ThreadDocs == {"d1"}

\* a thread outside the CacheService; raised is the exception its call ended
\* with, evicted_fresh tells that its del removed an entry that was not expired
ThreadIdle ==
    [pc |-> "idle", cache_key |-> <<>>, cache_entry |-> NoEntry, expired_keys |-> {},
     size |-> 0, raised |-> "", evicted_fresh |-> FALSE]

\* a thread whose call raised or evicted a fresh entry is followed no further
Running(t) == thr[t].raised = "" /\ ~thr[t].evicted_fresh

\* len(self.cache)
CacheLen(entries) == Cardinality({k \in CacheKeys : entries[k] # NoEntry})

\* del self.cache[cache_key] by thread t, then pc
ThreadDel(t, cache_key, then) ==
    LET present == cache.cache[cache_key] IN
    IF present = NoEntry
    THEN /\ thr' = [thr EXCEPT ![t].raised = "KeyError", ![t].pc = "idle"]
         /\ cache' = cache
    ELSE /\ thr' = [thr EXCEPT ![t].pc = then,
                               ![t].expired_keys = @ \ {cache_key},
                               ![t].evicted_fresh = ~_is_expired(present, now, cache.cache_ttl)]
         /\ cache' = [cache EXCEPT !.cache = DelEntry(@, cache_key)]

\* set_search_results: the assignment to the dictionary is one step
Thread_set(t) ==
    /\ thr[t].pc = "idle" /\ Running(t)
    /\ ~NotEnabled(cache)
    /\ \E q \in CacheQueries, d \in ThreadDocs, k \in CacheTopKs, payload \in ResultsPayloads :
          cache' = [cache EXCEPT !.cache =
                       StoreEntry(@, _generate_cache_key(q, d, k), Entry("results", payload, now))]
    /\ UNCHANGED <<thr, now, lastop, served, call, handlervars>>

\* get_search_results up to the test of the entry it read
Thread_get_read(t) ==
    /\ thr[t].pc = "idle" /\ Running(t)
    /\ ~NotEnabled(cache)
    /\ \E q \in CacheQueries, d \in ThreadDocs, k \in CacheTopKs :
          LET cache_key == _generate_cache_key(q, d, k)
              cache_entry == cache.cache[cache_key]
              hit == cache_entry # NoEntry /\ ~_is_expired(cache_entry, now, cache.cache_ttl)
          IN thr' = [thr EXCEPT ![t] = [@ EXCEPT !.cache_key = cache_key,
                                                 !.cache_entry = cache_entry,
                                                 !.pc = IF hit \/ cache_entry = NoEntry
                                                        THEN "idle" ELSE "get_del"]]
    /\ UNCHANGED <<cache, now, lastop, served, call, handlervars>>

\* get_search_results: "del self.cache[cache_key]" of the expired entry
Thread_get_del(t) ==
    /\ thr[t].pc = "get_del" /\ Running(t)
    /\ ThreadDel(t, thr[t].cache_key, "idle")
    /\ UNCHANGED <<now, lastop, served, call, handlervars>>

\* cleanup_expired: the iteration over self.cache.items() is inside its
\* body, which an empty dictionary does not have
Thread_cleanup_begin(t) ==
    /\ thr[t].pc = "idle" /\ Running(t)
    /\ CacheLen(cache.cache) > 0
    /\ thr' = [thr EXCEPT ![t].pc = "cleanup_scan", ![t].size = CacheLen(cache.cache)]
    /\ UNCHANGED <<cache, now, lastop, served, call, handlervars>>

\* cleanup_expired: the iteration goes on; a dictionary whose size changed
\* since it started raises RuntimeError
Thread_cleanup_scan(t) ==
    /\ thr[t].pc = "cleanup_scan" /\ Running(t)
    /\ IF CacheLen(cache.cache) # thr[t].size
       THEN thr' = [thr EXCEPT ![t].raised = "RuntimeError", ![t].pc = "idle"]
       ELSE LET expired_keys == {k \in CacheKeys : cache.cache[k] # NoEntry
                                     /\ _is_expired(cache.cache[k], now, cache.cache_ttl)}
            IN thr' = [thr EXCEPT ![t].expired_keys = expired_keys,
                                  ![t].pc = IF expired_keys = {} THEN "idle" ELSE "cleanup_del"]
    /\ UNCHANGED <<cache, now, lastop, served, call, handlervars>>

\* cleanup_expired: "del self.cache[key]" of one of expired_keys
Thread_cleanup_del(t) ==
    /\ thr[t].pc = "cleanup_del" /\ Running(t)
    /\ \E key \in thr[t].expired_keys :
          ThreadDel(t, key, IF thr[t].expired_keys = {key} THEN "idle" ELSE "cleanup_del")
    /\ UNCHANGED <<now, lastop, served, call, handlervars>>

ThreadTick ==
    /\ now < MaxClock
    /\ now' = now + 1
    /\ UNCHANGED <<cache, thr, lastop, served, call, handlervars>>

InitThreads ==
    /\ db = Uploaded({})
    /\ settings = [RAG_MAX_CONTEXT_LENGTH |-> RAG_MAX_CONTEXT_LENGTH]
    /\ Idle
    /\ CacheInit(TRUE)
    /\ served = NoServed
    /\ thr = [t \in Threads |-> ThreadIdle]
    /\ call = NoCall

NextThreads ==
    \/ \E t \in Threads :
          \/ Thread_set(t)
          \/ Thread_get_read(t) \/ Thread_get_del(t)
          \/ Thread_cleanup_begin(t) \/ Thread_cleanup_scan(t) \/ Thread_cleanup_del(t)
    \/ ThreadTick

SpecThreads == InitThreads /\ [][NextThreads]_vars

---------------------------------------------------------------------------
(* normalize_query and RerankerService.rerank applied to given arguments *)

MaxTokens == 3      \* pieces a query given to normalize_query is made of
MaxPassages == 3    \* passages given to rerank

QueryTokens ==
    {S_proj, S_project \o <<"s">>, <<"P","r","o","j","e","c","t">>,
     S_intenship, S_intership, <<" ">>, <<"s">>, <<"-">>}

RECURSIVE TokenStrings(_)
TokenStrings(n) ==
    IF n = 0 THEN {<<>>}
    ELSE LET shorter == TokenStrings(n - 1)
         IN shorter \cup {x \o t : x \in shorter, t \in QueryTokens}

\* q is a string or None
Given(text) == [missing |-> FALSE, text |-> text]
Missing == [missing |-> TRUE, text |-> <<>>]

NormalizeInputs == {Given(x) : x \in TokenStrings(MaxTokens)} \cup {Missing}

\* (q or "")
OrEmpty(q) == IF q.missing \/ q.text = <<>> THEN <<>> ELSE q.text

\* normalize_query(q), and then normalize_query of what it returned
normalize_once ==
    /\ call.f = "normalize_query" /\ call.pass = 0
    /\ call' = [call EXCEPT !.once = normalize_query(OrEmpty(call.q)), !.pass = 1]
    /\ UNCHANGED <<handlervars, servicevars>>

normalize_again ==
    /\ call.f = "normalize_query" /\ call.pass = 1
    /\ call' = [call EXCEPT !.twice = normalize_query(call.once), !.pass = 2]
    /\ UNCHANGED <<handlervars, servicevars>>

RerankScores == {1, 2}

\* what model.predict returns for the passages, one score each
RerankInputs ==
    UNION {[1..n -> RerankScores] : n \in 0..MaxPassages}

\* list(range(len(passages)))
Range(n) == [i \in 1..n |-> i - 1]

\* indices.sort(key=lambda i: float(scores[i]), reverse=True)
rerank_indices_Ascending(scores) ==
    SortDesc(Range(Len(scores)), [i \in 1..Len(scores) |-> 0 - scores[i]])

rerank_indices(scores) == SortDesc(Range(Len(scores)), scores)

\* rerank up to the return of _load: no passages returns [] before it;
\* CrossEncoder(model_name) loads the model or raises
rerank_load ==
    /\ call.f = "rerank" /\ call.state = "called"
    /\ IF call.scores = <<>>
       THEN call' = [call EXCEPT !.state = "returned", !.indices = <<>>]
       ELSE \E loaded \in BOOLEAN :
               call' = [call EXCEPT !.state = IF loaded THEN "loaded" ELSE "raised",
                                    !.unavailable = ~loaded]
    /\ UNCHANGED <<handlervars, servicevars>>

\* rerank from model.predict to its return: predict scores or raises
rerank_predict ==
    /\ call.f = "rerank" /\ call.state = "loaded"
    /\ \E scored \in BOOLEAN :
          call' = IF scored
                  THEN [call EXCEPT !.state = "returned",
                                    !.indices = rerank_indices(call.scores)]
                  ELSE [call EXCEPT !.state = "raised", !.unavailable = TRUE]
    /\ UNCHANGED <<handlervars, servicevars>>

\* raw scores a store can give: similarities, distances, negative products
SimilarityRaws == {-200, -100, -50, 0, 50, 100, 300}

\* what the two queries of the store return for one search: one or two
\* documents with their raw scores, and the retriever's list (or it raises)
SimilarityInputs ==
    LET scored == {[raises |-> FALSE, items |-> << <<1, a>> >>] : a \in SimilarityRaws}
                  \cup {[raises |-> FALSE, items |-> << <<1, a>>, <<2, b>> >>] :
                            a \in SimilarityRaws, b \in SimilarityRaws}
        ranked == {StoreRaises, [raises |-> FALSE, items |-> <<1, 2>>]}
    IN {[scored |-> x, ranked |-> y] : x \in scored, y \in ranked}

\* similarity_search_with_similarity from its call to its return
similarity_search ==
    /\ call.f = "similarity_search_with_similarity" /\ call.state = "called"
    /\ call' = [call EXCEPT !.state = "returned",
                            !.out = similarity_search_with_similarity(call.vs)]
    /\ UNCHANGED <<handlervars, servicevars>>

\* queries that mention one concept, both, or neither
BonusQueries ==
    {S_project \o <<"s">>, <<"I","n","t","e","r","n","s","h","i","p">>,
     S_project \o <<" ">> \o S_internship, S_internship \o <<" ">> \o S_project,
     S_score}

\* a list of two candidates of either path: the AWS chunk, the project chunk
\* and the internship chunk, with their scores
BonusResults ==
    LET cands == {Cand(p, score, via) : p \in 1..3, score \in RawScores,
                                       via \in {"vector", "fallback"}}
    IN {<<a, b>> : a \in cands, b \in cands}

\* the two intent adjustments and the two sorts that use them
intent_rerank ==
    /\ call.f = "intent_rerank" /\ call.state = "called"
    /\ LET q == Lower(call.query)
           results == call.results
           keys == [i \in 1..Len(results) |-> results[i].score + bonus(q, results[i])]
       IN call' = [call EXCEPT
                      !.state = "returned",
                      !.bonus = [i \in 1..Len(results) |-> bonus(q, results[i])],
                      !._bonus = [i \in 1..Len(results) |-> _bonus(q, results[i])],
                      !.vector_results = SortDesc(results, keys),
                      !.relevant_results = RelevantResults(call.query, 0, results)]
    /\ UNCHANGED <<handlervars, servicevars>>

\* content_lower.find(word): the 0-based position of the first occurrence
Find(word, text) ==
    (CHOOSE i \in 1..Len(text) :
        /\ \A k \in 1..Len(word) : i + k - 1 <= Len(text) /\ text[i + k - 1] = word[k]
        /\ \A j \in 1..(i - 1) : \E k \in 1..Len(word) :
              j + k - 1 > Len(text) \/ text[j + k - 1] # word[k]) - 1

Ellipsis == <<".", ".", ".">>

\* best_span of get_citations_from_results: the span around the first word
\* of the query that is in the content, else the first 200 characters
RECURSIVE SpanFrom(_, _, _)
SpanFrom(words, k, content) ==
    IF k > Len(words) THEN CitationContent(content)
    ELSE IF In(words[k], Lower(content))
    THEN LET start_pos == Find(words[k], Lower(content))
             start == IF start_pos - 50 > 0 THEN start_pos - 50 ELSE 0
             end == Min(Len(content), start_pos + Len(words[k]) + 50)
         IN (IF start > 0 THEN Ellipsis ELSE <<>>)
            \o SubSeq(content, start + 1, end)
            \o (IF end < Len(content) THEN Ellipsis ELSE <<>>)
    ELSE SpanFrom(words, k + 1, content)

best_span(query, content) == SpanFrom(Split(Lower(query)), 1, content)

CitationQueries == {<<"k","e","y">>, Q_foreign, Q_fx}

\* passages with the words of the query at the start, in the middle, in
\* capitals, or nowhere; up to 1000 characters as the splitter cuts them
CitationTexts ==
    {T_foreignkey, Pad(60) \o T_foreignkey \o Pad(60), T_foreignkey \o Pad(250),
     Pad(210) \o <<"K","E","Y">> \o Pad(20), T_loops, Pad(250)}

\* the excerpt the two places that build citations give one passage
citation ==
    /\ call.f = "citation" /\ call.state = "called"
    /\ call' = [call EXCEPT !.state = "returned",
                            !.best_span = best_span(call.query, call.text),
                            !.content = CitationContent(call.text)]
    /\ UNCHANGED <<handlervars, servicevars>>

InitPure ==
    /\ db = Uploaded({})
    /\ settings = [RAG_MAX_CONTEXT_LENGTH |-> RAG_MAX_CONTEXT_LENGTH]
    /\ Idle
    /\ CacheInit(TRUE)
    /\ served = NoServed
    /\ thr = NoThreads
    /\ \/ \E q \in NormalizeInputs :
             call = [f |-> "normalize_query", q |-> q, once |-> <<>>, twice |-> <<>>,
                     pass |-> 0]
       \/ \E scores \in RerankInputs :
             call = [f |-> "rerank", scores |-> scores, state |-> "called",
                     indices |-> <<>>, unavailable |-> FALSE]
       \/ \E vs \in SimilarityInputs :
             call = [f |-> "similarity_search_with_similarity", vs |-> vs,
                     state |-> "called", out |-> StoreRaises]
       \/ \E query \in CitationQueries, text \in CitationTexts :
             call = [f |-> "citation", query |-> query, text |-> text,
                     state |-> "called", best_span |-> <<>>, content |-> <<>>]
       \/ \E query \in BonusQueries, results \in BonusResults :
             call = [f |-> "intent_rerank", query |-> query, results |-> results,
                     state |-> "called", bonus |-> <<>>, _bonus |-> <<>>,
                     vector_results |-> <<>>, relevant_results |-> <<>>]

NextPure ==
    \/ normalize_once \/ normalize_again
    \/ rerank_load \/ rerank_predict
    \/ similarity_search
    \/ intent_rerank
    \/ citation

SpecPure == InitPure /\ [][NextPure]_vars

---------------------------------------------------------------------------
(* Two requests in a row on one deployment *)

RepeatQueries == {Q_foreign, Q_fx}

InitRepeat ==
    /\ db = Uploaded({"d2"})
    /\ settings = [RAG_MAX_CONTEXT_LENGTH |-> RAG_MAX_CONTEXT_LENGTH]
    /\ Idle
    /\ CacheInit(TRUE)
    /\ served = [keep |-> TRUE, last |-> NoReq]
    /\ Quiet

NextRepeat ==
    \/ ChatReceive /\ req'.query \in RepeatQueries /\ req'.course_id = "d2"
    \/ ChatSearch
    \/ ChatGenerate
    \/ Return

SpecRepeat == InitRepeat /\ [][NextRepeat]_vars

---------------------------------------------------------------------------
(* POST /upload and DELETE /{document_id} of documents, between requests   *)
(* of document_chat and calls of the cache service                         *)

CorpusDocs == {"d1"}

\* upload_document: the document record is inserted, then add_texts puts the
\* chunks in the vector store (a failure is only printed), then each chunk is
\* inserted in document_chunks (a failure is printed and the chunk skipped).
\* The document_id is a fresh uuid4: nothing of the document is stored yet.
upload_document ==
    /\ pc = "idle"
    /\ \E d \in CorpusDocs, processed \in BOOLEAN, added \in BOOLEAN :
       \E inserted \in SUBSET PidsOf({d}) :
          /\ d \notin db.documents
          /\ PidsOf({d}) \cap db.vectors = {}
          /\ req' = [op |-> "upload_document", query |-> <<>>, course_id |-> d, top_k |-> 0]
          /\ IF processed
             THEN /\ db' = [documents |-> db.documents \cup {d},
                            chunks |-> db.chunks \o SeqOfSet(inserted),
                            vectors |-> IF added THEN db.vectors \cup PidsOf({d})
                                        ELSE db.vectors]
                  /\ reply' = Ok(NoAnswer, <<>>, "none")
             ELSE /\ db' = db
                  /\ reply' = HTTPException(500)
    /\ pc' = "done"
    /\ UNCHANGED <<settings, search_results, relevant_results, rtrace,
                   context_parts, gen, answer, cachevars>>

\* delete_document: delete_many on document_chunks, delete_one on documents;
\* an exception of either makes it return False, and the endpoint answers
\* 404 unless a document record was deleted
delete_document ==
    /\ pc = "idle"
    /\ \E d \in CorpusDocs, raises \in {"none", "delete_many", "delete_one"} :
          LET OfOther(p) == Chunk[p].document_id # d
              deleted_count == IF d \in db.documents THEN 1 ELSE 0
          IN /\ req' = [op |-> "delete_document", query |-> <<>>, course_id |-> d, top_k |-> 0]
             /\ db' = [documents |-> IF raises = "none" THEN db.documents \ {d}
                                     ELSE db.documents,
                       chunks |-> IF raises = "delete_many" THEN db.chunks
                                  ELSE SelectSeq(db.chunks, OfOther),
                       vectors |-> db.vectors]
             /\ reply' = IF raises = "none" /\ deleted_count > 0
                         THEN Ok(NoAnswer, <<>>, "none")
                         ELSE HTTPException(404)
    /\ pc' = "done"
    /\ UNCHANGED <<settings, search_results, relevant_results, rtrace,
                   context_parts, gen, answer, cachevars>>

InitCorpus ==
    /\ db = Uploaded({})
    /\ settings = [RAG_MAX_CONTEXT_LENGTH |-> RAG_MAX_CONTEXT_LENGTH]
    /\ Idle
    /\ CacheInit(TRUE)
    /\ served = [keep |-> TRUE, last |-> NoReq]
    /\ Quiet

\* an upload inserts every chunk or none (the embedding service is up or
\* down); the requests ask about the AWS score with top_k = 1; the cache is
\* given and asked one result list of one key
NextCorpus ==
    \/ upload_document /\ Len(db'.chunks) \in {0, Cardinality(PidsOf(CorpusDocs))}
    \/ delete_document
    \/ ChatReceive /\ req'.query = ProcessedQuery(Q_aws) /\ req'.top_k = 1
    \/ ChatSearch
    \/ ChatGenerate
    \/ Return
    \/ pc = "idle" /\ set_search_results
          /\ lastop'.args.document_id = "d1" /\ lastop'.arg = "results_A"
    \/ pc = "idle" /\ get_search_results /\ lastop'.args.document_id = "d1"

SpecCorpus == InitCorpus /\ [][NextCorpus]_vars

---------------------------------------------------------------------------
(* Properties of the answering endpoints *)

Answering == {"document_chat", "course_answer", "simple_chat"}

\* the retrieval call of the request has returned
Retrieved == pc \in {"generating", "done"} /\ req.op \in {"document_chat", "course_answer"}

\* C1: when retrieval returns zero candidates the request ends with the fixed
\* no-information answer, no citations, and no Generator call
C1_NoContext ==
    (Retrieved /\ search_results = <<>>) =>
        /\ pc = "done"
        /\ reply.status = 200
        /\ reply.answer.fixed = (IF req.op = "document_chat"
                                 THEN "I couldn't find any relevant information about '{query}' in the uploaded documents. Please try asking a different question or check if the relevant document has been uploaded correctly."
                                 ELSE "I couldn't find relevant information to answer your question. Please try rephrasing or check if the course content is available.")
        /\ reply.citations = <<>>
        /\ gen.calls = 0

C1_Witness ==
    /\ pc = "done" /\ req.op = "document_chat"
    /\ rtrace.fallback_ran /\ search_results = <<>> /\ db.chunks # <<>>
    /\ reply.status = 200 /\ gen.calls = 0

\* C2: a request classified OUT_OF_CORPUS gets the general-knowledge message
\* and makes no Generator call
C2_OutOfCorpus ==
    (/\ pc \in {"generating", "done"} /\ req.op = "document_chat"
     /\ search_results # <<>>
     /\ GeneralKnowledgeBranch(req.query, relevant_results)) =>
        /\ gen.calls = 0
        /\ pc = "done" => reply.answer = GeneralKnowledgeAnswer(req.query)

\* C3: document_chat_answer answers with a QueryResponse whatever fails below it
C3_NeverFails ==
    (pc = "done" /\ req.op = "document_chat") =>
        reply.status = 200 /\ reply.answer # NoAnswer

\* the text that tells a failure kind apart
FailureText(raises) ==
    CASE raises = "RateLimitError" -> RateLimitAnswer("").fixed
      [] raises = "AuthenticationError" -> AuthenticationAnswer("").fixed
      [] raises = "APIError" -> APIErrorAnswer("").fixed

\* C4: on every answering endpoint a failed Generator call yields the text of
\* its failure kind
C4_FailureKind ==
    (/\ pc = "done" /\ req.op \in Answering
     /\ gen.calls > 0 /\ chat_completion(gen.http).raises # "") =>
        /\ reply.status = 200
        /\ reply.answer.fixed = FailureText(chat_completion(gen.http).raises)

ViaAll(results, via) == \A i \in 1..Len(results) : results[i].via = via

\* C5: search_documents returns the vector results when there are some, else
\* the result of the fallback, and the empty list when the fallback fails too
C5_Fallback ==
    (Retrieved /\ req.op = "document_chat") =>
        /\ rtrace.vector \in {"raised", "empty", "results"}
        /\ rtrace.vector \in {"raised", "empty"} => rtrace.fallback_ran
        /\ rtrace.vector = "results" =>
              ~rtrace.fallback_ran /\ search_results # <<>> /\ ViaAll(search_results, "vector")
        /\ rtrace.fallback_ran => ViaAll(search_results, "fallback")
        /\ rtrace.fallback_raised => search_results = <<>>

C5_Witness ==
    /\ Retrieved /\ req.op = "document_chat"
    /\ rtrace.vector = "empty" /\ rtrace.fallback_ran /\ search_results # <<>>

InScope(p) == req.course_id # None => Chunk[p].document_id = req.course_id

\* C6: with a vector store that raises, a query that occurs verbatim in an
\* in-scope chunk gets such a chunk in the list
C6_Verbatim ==
    (/\ Retrieved /\ req.op = "document_chat"
     /\ rtrace.vector = "raised" /\ ~rtrace.fallback_raised
     /\ \E k \in 1..Len(db.chunks) : InScope(db.chunks[k]) /\ In(req.query, Chunk[db.chunks[k]].text)) =>
        \E i \in 1..Len(search_results) : In(req.query, CText(search_results[i]))

RECURSIVE SumSourceTextLen(_, _)
SumSourceTextLen(parts, i) ==
    IF i > Len(parts) THEN 0
    ELSE SourceTextLen(i, parts[i], db) + SumSourceTextLen(parts, i + 1)

\* len("\n\n".join(context_parts))
ContextLen(parts) ==
    IF parts = <<>> THEN 0 ELSE SumSourceTextLen(parts, 1) + 2 * (Len(parts) - 1)

\* C7: the joined context is within the limit unless it holds one passage
C7_Budget ==
    (pc \in {"generating", "done"} /\ req.op = "document_chat" /\ Len(context_parts) # 1) =>
        ContextLen(context_parts) <= settings.RAG_MAX_CONTEXT_LENGTH

\* C8: the context given to the Generator holds at least the first passage
C8_FirstPassage ==
    (pc = "generating" /\ req.op = "document_chat") =>
        context_parts # <<>> /\ context_parts[1] = relevant_results[1]

\* the adjustment search_documents applied to a candidate
Adjustment(c) == IF c.via = "vector" THEN bonus(Lower(req.query), c) ELSE 0

PositionIn(seq, p) == CHOOSE i \in 1..Len(seq) : seq[i] = p

NonIncreasing(keys) == \A i \in 1..(Len(keys) - 1) : keys[i] >= keys[i + 1]

\* candidates with equal keys are in the order the store returned them
TiesInRetrievalOrder(results, keys) ==
    \A i, j \in 1..Len(results) :
        (i < j /\ keys[i] = keys[j]) =>
            PositionIn(rtrace.retrieved, results[i].pid) < PositionIn(rtrace.retrieved, results[j].pid)

\* C9: the list of search_documents and the list the handler uses are
\* non-increasing in score + adjustment, ties in retrieval order
C9_Ranking ==
    (Retrieved /\ req.op = "document_chat") =>
        LET skeys == [i \in 1..Len(search_results) |->
                         search_results[i].score + Adjustment(search_results[i])]
            rkeys == [i \in 1..Len(relevant_results) |->
                         relevant_results[i].score
                         + _bonus(Lower(req.query), relevant_results[i])]
        IN /\ NonIncreasing(skeys) /\ TiesInRetrievalOrder(search_results, skeys)
           /\ NonIncreasing(rkeys) /\ TiesInRetrievalOrder(relevant_results, rkeys)

\* a list of three where the adjustment moved a candidate ahead of a better
\* raw score, and two candidates tie
C9_Witness ==
    /\ Retrieved /\ req.op = "document_chat" /\ rtrace.vector = "results"
    /\ Len(relevant_results) = 3
    /\ \E i, j \in 1..3 :
          /\ i < j
          /\ relevant_results[i].score < relevant_results[j].score
    /\ \E i, j \in 1..3 :
          /\ i < j
          /\ relevant_results[i].score + _bonus(Lower(req.query), relevant_results[i])
             = relevant_results[j].score + _bonus(Lower(req.query), relevant_results[j])

---------------------------------------------------------------------------
(* Properties of the cache *)

Gets == {"get_search_results", "get_chat_response"}

\* C10: with caching enabled, the get right after a put of its kind on the
\* same key returns the payload of that put, also when the put wrote over an
\* earlier entry
C10_PutGet ==
    (cache.enabled /\ lastop.op \in Gets /\ lastop.just_put # None) =>
        lastop.ret = lastop.just_put

\* a get that returned the second payload put under its key
C10_Witness ==
    /\ cache.enabled
    /\ lastop.op = "get_chat_response"
    /\ lastop.just_put = "chat_B" /\ lastop.overwrote
    /\ lastop.ret = "chat_B"

\* the entry now under the key of the last call
EntryOfLastOp == cache.cache[lastop.cache_key]

\* C11: a get returns no payload older than the TTL, and a get that finds an
\* expired entry returns absent and leaves no entry under the key
C11_Expiry ==
    lastop.op \in Gets =>
        /\ lastop.ret # None =>
              /\ lastop.found = "fresh"
              /\ EntryOfLastOp # NoEntry
              /\ now - EntryOfLastOp.timestamp <= cache.cache_ttl
        /\ lastop.found = "expired" =>
              lastop.ret = None /\ EntryOfLastOp = NoEntry

C11_Witness ==
    /\ cache.enabled
    /\ lastop.op = "get_chat_response" /\ lastop.found = "expired"
    /\ lastop.ret = None /\ EntryOfLastOp = NoEntry

\* C12: with the switch off every get returns absent and no put changes the
\* table
C12_Disabled ==
    ~cache.enabled =>
        /\ \A k \in CacheKeys : cache.cache[k] = NoEntry
        /\ lastop.op \in Gets => lastop.ret = None

\* a get right after a put on its key, with the switch off
C12_Witness ==
    /\ ~cache.enabled
    /\ lastop.op = "get_search_results" /\ lastop.just_put = "results_A"
    /\ lastop.ret = None

SetOf(get_op) ==
    IF get_op = "get_search_results" THEN "set_search_results" ELSE "set_chat_response"

\* the two calls ask for the same logical request
SameRequest(a, b) ==
    /\ Strip(Lower(a.query)) = Strip(Lower(b.query))
    /\ a.document_id = b.document_id
    /\ a.top_k = b.top_k

\* C16: requests equal in lower-cased trimmed query, scope and k have one
\* key: the get of one returns what was just put under the other
C16_SameKey ==
    (/\ cache.enabled /\ lastop.op \in Gets
     /\ lastop.prev.op = SetOf(lastop.op)
     /\ SameRequest(lastop.prev.args, lastop.args)) =>
        lastop.ret = lastop.prev.arg

\* put as "Foo " and read back as "foo"
C16_Witness ==
    /\ cache.enabled /\ lastop.op = "get_search_results"
    /\ lastop.prev.op = "set_search_results"
    /\ lastop.prev.args.query = CQ_Foo /\ lastop.args.query = CQ_foo
    /\ lastop.prev.args.document_id = lastop.args.document_id
    /\ lastop.ret = lastop.prev.arg /\ lastop.ret # None

---------------------------------------------------------------------------
(* Properties of requests in a row *)

\* C13: the second of two identical requests in a row, within the TTL and
\* with caching on, does no vector search and no fallback search
C13_SecondFromCache ==
    (/\ Retrieved /\ req.op = "document_chat"
     /\ cache.enabled /\ now <= cache.cache_ttl
     /\ served.keep /\ served.last = req) =>
        rtrace.vector = "none" /\ ~rtrace.fallback_ran

---------------------------------------------------------------------------
(* Properties of the cache under concurrent callers *)

\* C14: under every interleaving of gets, puts and cleanup_expired no call
\* raises and no eviction removes an entry that is not expired
C14_Concurrent ==
    \A t \in DOMAIN thr : thr[t].raised = "" /\ ~thr[t].evicted_fresh

---------------------------------------------------------------------------
(* Properties of normalize_query and of rerank *)

\* C15: normalize_query applied to its own result returns it unchanged, and
\* an empty or missing query gives the empty string
C15_Idempotent ==
    call.f = "normalize_query" =>
        /\ call.pass = 2 => call.twice = call.once
        /\ (call.pass >= 1 /\ (call.q.missing \/ call.q.text = <<>>)) => call.once = <<>>

\* a query that normalisation changed
C15_Witness ==
    /\ call.f = "normalize_query" /\ call.pass = 2
    /\ ~call.q.missing /\ call.once # call.q.text
    /\ In(S_project, call.once) /\ In(S_internship, call.once)
    /\ call.twice = call.once

\* C17: rerank returns every index from 0 to n-1 once, in descending order
\* of score, and the empty list for no passages
C17_Permutation ==
    (call.f = "rerank" /\ call.state = "returned") =>
        LET n == Len(call.scores) IN
        /\ Len(call.indices) = n
        /\ \A k \in 0..(n - 1) : \E i \in 1..n : call.indices[i] = k
        /\ \A i \in 1..(n - 1) :
              call.scores[call.indices[i] + 1] >= call.scores[call.indices[i + 1] + 1]

\* three passages of which the last scores best
C17_Witness ==
    /\ call.f = "rerank" /\ call.state = "returned"
    /\ Len(call.scores) = 3 /\ call.indices[1] = 2

\* C18: with the cross-encoder unavailable rerank returns the indices in
\* their given order and does not raise
C18_PassThrough ==
    (call.f = "rerank" /\ call.unavailable) =>
        call.state = "returned" /\ call.indices = Range(Len(call.scores))

---------------------------------------------------------------------------
(* Properties of the grounding policy and of the citations *)

\* the words of the general-knowledge phrases the query contains
TriggerWords(query) ==
    UNION {{Split(general_knowledge_indicators[k])[j] :
               j \in 1..Len(Split(general_knowledge_indicators[k]))} :
           k \in {k \in 1..Len(general_knowledge_indicators) :
                     In(general_knowledge_indicators[k], Lower(query))}}

\* the words of the query other than those of its trigger phrase
SignificantWords(query) ==
    {Split(Lower(query))[j] : j \in 1..Len(Split(Lower(query)))} \ TriggerWords(query)

\* C19: a general-knowledge query whose significant words occur in no
\* retrieved passage of a non-empty result is answered OUT_OF_CORPUS
C19_DefineRecursion ==
    (/\ pc = "done" /\ req.op = "document_chat"
     /\ is_general_knowledge_query(req.query)
     /\ search_results # <<>>
     /\ \A w \in SignificantWords(req.query) :
           \A i \in 1..Len(search_results) : ~In(w, Lower(CText(search_results[i])))) =>
        /\ reply.status = 200
        /\ reply.answer.fixed = GeneralKnowledgeAnswer(req.query).fixed

\* C20: a GROUNDED response cites exactly the passages of its context
C20_CitationsOfContext ==
    (/\ pc = "done" /\ req.op = "document_chat"
     /\ reply.status = 200 /\ reply.answer = GeneratedAnswer) =>
        /\ Len(reply.citations) = Len(context_parts)
        /\ \A i \in 1..Len(context_parts) : reply.citations[i].pid = context_parts[i].pid

---------------------------------------------------------------------------
(* Properties of the scope, the corpus and the scores *)

AllOf(results, document_id) ==
    \A i \in 1..Len(results) : CDocId(results[i]) = document_id

Mutations == {"upload_document", "delete_document"}

\* C22: when upload_document or delete_document has completed, no entry
\* stored before it is left in the cache
C22_Invalidated ==
    (pc = "done" /\ req.op \in Mutations /\ reply.status = 200) =>
        \A k \in CacheKeys : cache.cache[k] = NoEntry

\* C30: the search that follows a successful delete_document(d) returns no
\* passage of d
C30_Deleted ==
    (/\ Retrieved /\ req.op = "document_chat"
     /\ served.last.op = "delete_document"
     /\ served.last.course_id \notin db.documents) =>
        \A i \in 1..Len(search_results) : CDocId(search_results[i]) # served.last.course_id

\* the accumulated length of the first m blocks, as the loop adds it up
Accumulated(results, m) == SumSourceTextLen(SubSeq(results, 1, m), 1)

\* C23: the context is the prefix of the ranked list that ends before the
\* first block that would take the accumulated length over the limit
C23_Prefix ==
    (pc \in {"generating", "done"} /\ req.op = "document_chat" /\ search_results # <<>>) =>
        LET m == Len(context_parts)
        IN /\ m <= Len(relevant_results)
           /\ context_parts = SubSeq(relevant_results, 1, m)
           /\ \A j \in 1..m :
                 Accumulated(relevant_results, j) <= settings.RAG_MAX_CONTEXT_LENGTH
           /\ m < Len(relevant_results) =>
                 Accumulated(relevant_results, m + 1) > settings.RAG_MAX_CONTEXT_LENGTH

\* the block after the first one left out would have fitted on its own, and
\* even in the room left
C23_Witness ==
    /\ pc = "generating" /\ req.op = "document_chat"
    /\ Len(context_parts) + 2 <= Len(relevant_results)
    /\ LET m == Len(context_parts)
       IN Accumulated(relevant_results, m)
          + SourceTextLen(m + 2, relevant_results[m + 2], db)
             <= settings.RAG_MAX_CONTEXT_LENGTH

\* C24: the candidates of the keyword fallback all carry one score, and no
\* candidate of the vector search carries a smaller one
C24_LowConfidence ==
    (Retrieved /\ req.op = "document_chat") =>
        /\ rtrace.fallback_ran =>
              \A i \in 1..Len(search_results) : search_results[i].score = FALLBACK_SCORE
        /\ rtrace.vector = "results" =>
              \A i \in 1..Len(search_results) : search_results[i].score >= FALLBACK_SCORE

\* C25: every raw score the store returns gets a similarity in [0,1], the
\* raw score itself when that lies in [0,1]
C25_Normalized ==
    (/\ call.f = "similarity_search_with_similarity" /\ call.state = "returned"
     /\ ~call.vs.scored.raises) =>
        /\ ~call.out.raises
        /\ Len(call.out.items) = Len(call.vs.scored.items)
        /\ \A i \in 1..Len(call.out.items) :
              LET raw == call.vs.scored.items[i][2]
                  sim == call.out.items[i].similarity
              IN /\ call.out.items[i].pid = call.vs.scored.items[i][1]
                 /\ 0 <= sim /\ sim <= 100
                 /\ (0 <= raw /\ raw <= 100) => sim = raw

Concepts == {"project", "internship"}

Competing(A) == IF A = "project" THEN "internship" ELSE "project"

\* the concepts the queries and the chunks mention
QueryMentions(query) ==
    CASE query = S_project \o <<"s">> -> {"project"}
      [] query = <<"I","n","t","e","r","n","s","h","i","p">> -> {"internship"}
      [] query = S_score -> {}
      [] OTHER -> Concepts

PassageMentions(r) ==
    CASE r.pid = 2 -> {"project"}
      [] r.pid = 3 -> {"internship"}
      [] OTHER -> {}

\* +0.2 for the concept A of the query, -0.1 for its competitor
AdjustmentFor(A, r) ==
    (IF A \in PassageMentions(r) THEN 20 ELSE 0)
    - (IF Competing(A) \in PassageMentions(r) THEN 10 ELSE 0)

IntentAdjustment(query, r) ==
    (IF "project" \in QueryMentions(query) THEN AdjustmentFor("project", r) ELSE 0)
    + (IF "internship" \in QueryMentions(query) THEN AdjustmentFor("internship", r) ELSE 0)

SameCandidates(a, b) ==
    /\ Len(a) = Len(b)
    /\ \A i \in 1..Len(a) :
          Cardinality({j \in 1..Len(a) : a[j] = a[i]})
          = Cardinality({j \in 1..Len(b) : b[j] = a[i]})

\* C26: both adjustments are +0.2 for the concept of the query and -0.1 for
\* the competing one, the same way for project and for internship, 0 where
\* nothing is mentioned, and the sorted lists hold the candidates as given
C26_Symmetric ==
    (call.f = "intent_rerank" /\ call.state = "returned") =>
        /\ \A i \in 1..Len(call.results) :
              /\ call.bonus[i] = IntentAdjustment(call.query, call.results[i])
              /\ call._bonus[i] = IntentAdjustment(call.query, call.results[i])
        /\ SameCandidates(call.vector_results, call.results)
        /\ SameCandidates(call.relevant_results, call.results)

\* a query about internships moved the internship chunk ahead of the
\* project chunk, which the store had put first with the same score
C26_Witness ==
    /\ call.f = "intent_rerank" /\ call.state = "returned"
    /\ QueryMentions(call.query) = {"internship"}
    /\ call.results[1].pid = 2 /\ call.results[2].pid = 3
    /\ call.results[1].score = call.results[2].score
    /\ call.bonus = <<-10, 20>>
    /\ call.relevant_results[1].pid = 3

\* the positions of the passage where a word of the query starts
Occurrences(query, text) ==
    LET words == Split(Lower(query))
    IN {i \in 1..Len(text) :
           \E k \in 1..Len(words) :
              \A n \in 1..Len(words[k]) :
                 i + n - 1 <= Len(text) /\ LowerChar(text[i + n - 1]) = words[k][n]}

\* the excerpt of a passage: 50 characters on either side of the first
\* occurrence of a query word, or else the first 200 characters
Excerpt(query, text) ==
    IF Occurrences(query, text) = {}
    THEN (IF Len(text) > 200 THEN SubSeq(text, 1, 200) \o <<".", ".", ".">> ELSE text)
    ELSE LET words == Split(Lower(query))
             first == CHOOSE i \in Occurrences(query, text) :
                          \A j \in Occurrences(query, text) : i <= j
             word == CHOOSE k \in 1..Len(words) :
                         \A n \in 1..Len(words[k]) :
                            first + n - 1 <= Len(text)
                            /\ LowerChar(text[first + n - 1]) = words[k][n]
             from == IF first - 50 > 1 THEN first - 50 ELSE 1
             last == first + Len(words[word]) - 1 + 50
             to == IF last < Len(text) THEN last ELSE Len(text)
         IN (IF from > 1 THEN <<".", ".", ".">> ELSE <<>>)
            \o SubSeq(text, from, to)
            \o (IF to < Len(text) THEN <<".", ".", ".">> ELSE <<>>)

\* C27: the excerpt of a citation, from get_citations_from_results and from
\* document_chat_answer alike, is the span around the first occurrence of a
\* query word, and the first 200 characters when no word occurs
C27_Excerpt ==
    (call.f = "citation" /\ call.state = "returned") =>
        /\ call.best_span = Excerpt(call.query, call.text)
        /\ call.content = Excerpt(call.query, call.text)

\* what get_search_results would return for a key now
SearchView(c, t, k) ==
    IF c.enabled /\ c.cache[k] # NoEntry /\ t - c.cache[k].timestamp <= c.cache_ttl
    THEN IF c.cache[k].field = "results" THEN c.cache[k].payload ELSE None
    ELSE None

\* C28: a set_chat_response leaves what get_search_results returns for
\* every key as it was
C28_NoInterference ==
    [][lastop'.op = "set_chat_response" =>
          \A k \in CacheKeys : SearchView(cache', now', k) = SearchView(cache, now, k)]_vars

\* C29: the course answer with candidates and a completed Generator call is
\* the Generator's text with one citation per result and its usage
C29_CourseAnswer ==
    (/\ pc = "done" /\ req.op = "course_answer"
     /\ search_results # <<>>
     /\ chat_completion(gen.http) = Returned("completion")) =>
        /\ reply.answer = GeneratedAnswer
        /\ Len(reply.citations) = Len(search_results)
        /\ reply.usage = "usage"

====
